---- MODULE Spec2Model ----
(***************************************************************************)
(* Model of the Manga Index web application (src/app/main.py,             *)
(* src/app/models.py, src/promote_admin.py, src/seed.py): the relational  *)
(* store, the cookie sessions and one action per request handler.         *)
(*                                                                         *)
(* Spec          accounts and the admin console, each request handled to  *)
(*               completion before the next is taken.                     *)
(* ListSpec      the custom lists, likewise one request at a time, over   *)
(*               a seeded store with two accounts.                        *)
(* RoleRaceSpec  accounts and role changes, admin_update_user_role split  *)
(*               between its checks and its commit.                       *)
(* AddRaceSpec   the custom lists, add_to_list split between its          *)
(*               duplicate check and its commit.                          *)
(***************************************************************************)
EXTENDS Integers, FiniteSets, TLC

\* ---------------------------------------------------------------- bounds
\* Largest row id each table is let grow to.
MaxLists == 1
MaxItems == 2
MaxManga == 1
MaxChapters == 1

\* ---------------------------------------------------------------- inputs
\* Browser sessions (one signed cookie each).
Sessions == {"s1", "s2"}
\* Form strings; username, email and identifier are all plain `str` fields,
\* so they are drawn from the same pool.
Strings == {"kei", "rin"}
Passwords == {"pw1", "pw2"}
RoleForms == {"user", "admin", "moderator"}
PublicForms == {"on", "off", "absent"}

UserIds == 1..(Cardinality(Strings) + 1)
ListIds == 1..(MaxLists + 1)
ItemIds == 1..(MaxItems + 1)
MangaIds == 1..(MaxManga + 1)

VARIABLES
  users,     \* table "user": set of rows [id, username, email, password_hash, role]
  lists,     \* table "custom_list": set of rows [id, user_id, is_public]
  items,     \* table "custom_list_item": set of rows [id, list_id, manga_id]
  manga,     \* table "manga": set of row ids
  chapters,  \* table "chapter": set of rows [id, manga_id]
  session,   \* session[s] = the cookie's "user_id", 0 when the key is absent
  inflight,  \* inflight[s] = a request of s between its reads and its commit
  req,       \* the request answered by the last step; for add_to_list also
             \* whether its duplicate check found a row (`existing`)
  resp       \* the response to req

vars == <<users, lists, items, manga, chapters, session, inflight, req, resp>>
db == <<users, lists, items, manga, chapters>>

\* ------------------------------------------------------------- responses
TemplateResponse(name, error) ==
  [status |-> 200, target |-> name, id |-> 0, detail |-> error]

RedirectResponse(url, n) ==
  [status |-> 303, target |-> url, id |-> n, detail |-> ""]

HTTPException(status_code, detail) ==
  [status |-> status_code, target |-> "", id |-> 0, detail |-> detail]

NoResponse == [status |-> 0, target |-> "", id |-> 0, detail |-> ""]

\* ---------------------------------------------------------------- store
Max(S) == CHOOSE x \in S : \A y \in S : y <= x

\* INTEGER PRIMARY KEY without AUTOINCREMENT: largest id in use plus one.
NextId(rows) == IF rows = {} THEN 1 ELSE Max({r.id : r \in rows}) + 1

\* The value of `query.first()` when nothing matches.
None ==
  [id |-> 0, username |-> "", email |-> "",
   password_hash |-> [scheme |-> "", secret |-> ""], role |-> ""]

NoList == [id |-> 0, user_id |-> 0, is_public |-> FALSE]
NoItem == [id |-> 0, list_id |-> 0, manga_id |-> 0]

\* query.filter(...).first() over rows matched by a unique key.
First(rows, none) == IF rows = {} THEN none ELSE CHOOSE r \in rows : TRUE

UserById(user_id) == First({u \in users : u.id = user_id}, None)

\* ----------------------------------------------------------- auth helpers
get_password_hash(password) == [scheme |-> "bcrypt", secret |-> password]

verify_password(plain_password, hashed_password) ==
  hashed_password.scheme = "bcrypt" /\ hashed_password.secret = plain_password

\* Faulty variant of get_current_user: the cookie's user_id is trusted without
\* looking the row up.
get_current_user_without_lookup(s) ==
  IF session[s] = 0 THEN None ELSE [None EXCEPT !.id = session[s]]

get_current_user(s) ==
  IF session[s] = 0 THEN None ELSE UserById(session[s])

\* Faulty variant of require_admin_raises: the role is not looked at.
require_admin_raises_anonymous_only(user) == user = None

\* TRUE when require_admin raises.
require_admin_raises(user) == user = None \/ user.role # "admin"

AdminRequired == HTTPException(403, "Admin access required")

Idle == [op |-> "idle"]

\* No request is being answered.
NoRequest == [op |-> "none", sid |-> "none"]

Init ==
  /\ users = {}
  /\ lists = {}
  /\ items = {}
  /\ manga = {}
  /\ chapters = {}
  /\ session = [s \in Sessions |-> 0]
  /\ inflight = [s \in Sessions |-> Idle]
  /\ req = NoRequest
  /\ resp = NoResponse

\* ------------------------------------------------------------- auth pages
\* Faulty variant of register_existing: only the username is compared.
register_existing_username_only(username, email) ==
  {u \in users : u.username = username}

\* "Check if username or email already exists"
register_existing(username, email) ==
  {u \in users : u.username = username \/ u.email = email}

\* Faulty variant of register_submit: the new user is not logged in.
register_submit_without_login(s, username, email, password, role) ==
  LET current_user == get_current_user(s)
      existing == register_existing(username, email)
      user == [id |-> NextId(users), username |-> username, email |-> email,
               password_hash |-> get_password_hash(password), role |-> "user"]
  IN /\ req' = [op |-> "register_submit", sid |-> s, username |-> username,
                email |-> email, role |-> role]
     /\ IF current_user # None
          THEN /\ resp' = RedirectResponse("/", 0)
               /\ UNCHANGED users
          ELSE IF existing # {}
            THEN /\ resp' = TemplateResponse("auth_register.html",
                                             "Username or email already in use.")
                 /\ UNCHANGED users
            ELSE /\ users' = users \cup {user}
                 /\ resp' = RedirectResponse("/", 0)
     /\ UNCHANGED <<session, lists, items, manga, chapters, inflight>>

\* Faulty variant of register_submit: the stored role is taken from the form.
register_submit_role_from_form(s, username, email, password, role) ==
  LET current_user == get_current_user(s)
      existing == register_existing(username, email)
      user == [id |-> NextId(users), username |-> username, email |-> email,
               password_hash |-> get_password_hash(password), role |-> role]
  IN /\ req' = [op |-> "register_submit", sid |-> s, username |-> username,
                email |-> email, role |-> role]
     /\ IF current_user # None
          THEN /\ resp' = RedirectResponse("/", 0)
               /\ UNCHANGED <<users, session>>
          ELSE IF existing # {}
            THEN /\ resp' = TemplateResponse("auth_register.html",
                                             "Username or email already in use.")
                 /\ UNCHANGED <<users, session>>
            ELSE /\ users' = users \cup {user}
                 /\ session' = [session EXCEPT ![s] = user.id]
                 /\ resp' = RedirectResponse("/", 0)
     /\ UNCHANGED <<lists, items, manga, chapters, inflight>>

\* POST /auth/register.  The handler declares the form fields username, email
\* and password; `role` is a field of the posted form that it does not declare
\* and never reads.
register_submit(s, username, email, password, role) ==
  LET current_user == get_current_user(s)
      existing == register_existing(username, email)
      user == [id |-> NextId(users), username |-> username, email |-> email,
               password_hash |-> get_password_hash(password), role |-> "user"]
  IN /\ req' = [op |-> "register_submit", sid |-> s, username |-> username,
                email |-> email, role |-> role]
     /\ IF current_user # None
          THEN /\ resp' = RedirectResponse("/", 0)
               /\ UNCHANGED <<users, session>>
          ELSE IF existing # {}
            THEN /\ resp' = TemplateResponse("auth_register.html",
                                             "Username or email already in use.")
                 /\ UNCHANGED <<users, session>>
            ELSE /\ users' = users \cup {user}
                 /\ session' = [session EXCEPT ![s] = user.id]
                 /\ resp' = RedirectResponse("/", 0)
     /\ UNCHANGED <<lists, items, manga, chapters, inflight>>

\* The rows login_submit's query matches.
login_matching(identifier) ==
  {u \in users : u.username = identifier \/ u.email = identifier}

\* Faulty variant of login_failure: the message tells the two causes apart.
login_failure_by_cause(user) ==
  IF user = None
    THEN TemplateResponse("auth_login.html", "Unknown username or email.")
    ELSE TemplateResponse("auth_login.html", "Wrong password.")

\* The response to a login that fails, `user` being what the query returned.
login_failure(user) ==
  TemplateResponse("auth_login.html", "Invalid username/email or password.")

\* POST /auth/login.  The query has no ORDER BY: when the identifier is one
\* row's username and another row's email, first() may return either row.
login_submit(s, identifier, password) ==
  LET current_user == get_current_user(s)
      matching == login_matching(identifier)
  IN /\ req' = [op |-> "login_submit", sid |-> s, identifier |-> identifier,
                password |-> password]
     /\ IF current_user # None
          THEN /\ resp' = RedirectResponse("/", 0)
               /\ UNCHANGED session
          ELSE \E user \in (IF matching = {} THEN {None} ELSE matching) :
                 IF user = None \/ ~verify_password(password, user.password_hash)
                   THEN /\ resp' = login_failure(user)
                        /\ UNCHANGED session
                   ELSE /\ session' = [session EXCEPT ![s] = user.id]
                        /\ resp' = RedirectResponse("/", 0)
     /\ UNCHANGED <<db, inflight>>

logout(s) ==
  /\ req' = [op |-> "logout", sid |-> s]
  /\ session' = [session EXCEPT ![s] = 0]
  /\ resp' = RedirectResponse("/", 0)
  /\ UNCHANGED <<db, inflight>>

\* ----------------------------------------------------------- custom lists
my_lists(s) ==
  LET current_user == get_current_user(s)
  IN /\ req' = [op |-> "my_lists", sid |-> s]
     /\ resp' = IF current_user = None
                  THEN RedirectResponse("/auth/login", 0)
                  ELSE TemplateResponse("my_lists.html", "")
     /\ UNCHANGED <<db, session, inflight>>

\* bool(is_public) of the optional checkbox field.
is_public_flag(is_public) == is_public = "on"

new_list_submit(s, is_public) ==
  LET current_user == get_current_user(s)
      custom_list == [id |-> NextId(lists), user_id |-> current_user.id,
                      is_public |-> is_public_flag(is_public)]
  IN /\ req' = [op |-> "new_list_submit", sid |-> s]
     /\ IF current_user = None
          THEN /\ resp' = RedirectResponse("/auth/login", 0)
               /\ UNCHANGED lists
          ELSE /\ NextId(lists) <= MaxLists
               /\ lists' = lists \cup {custom_list}
               /\ resp' = RedirectResponse("/my/lists", 0)
     /\ UNCHANGED <<users, items, manga, chapters, session, inflight>>

\* Faulty variant of list_detail_denied: the owner comparison is left out.
list_detail_denied_anonymous_only(custom_list, current_user) ==
  ~custom_list.is_public /\ current_user = None

\* "Only show private lists to their owner": TRUE when the 403 is raised.
list_detail_denied(custom_list, current_user) ==
  /\ ~custom_list.is_public
  /\ (current_user = None \/ custom_list.user_id # current_user.id)

list_detail(s, list_id) ==
  LET current_user == get_current_user(s)
      custom_list == First({l \in lists : l.id = list_id}, NoList)
  IN /\ req' = [op |-> "list_detail", sid |-> s, list_id |-> list_id]
     /\ resp' = IF custom_list = NoList
                  THEN HTTPException(404, "List not found")
                  ELSE IF list_detail_denied(custom_list, current_user)
                    THEN HTTPException(403, "Not allowed to view this list")
                    ELSE TemplateResponse("list_detail.html", "")
     /\ UNCHANGED <<db, session, inflight>>

\* Faulty variant of owned_list: the filter on the owner is left out.
owned_list_of_anyone(list_id, current_user) ==
  First({l \in lists : l.id = list_id}, NoList)

\* db.query(CustomList).filter(id == list_id, user_id == current_user.id).first()
owned_list(list_id, current_user) ==
  First({l \in lists : l.id = list_id /\ l.user_id = current_user.id}, NoList)

\* The rows add_to_list's "Avoid duplicates" query matches.
existing_items(list_id, manga_id) ==
  {i \in items : i.list_id = list_id /\ i.manga_id = manga_id}

\* Faulty variant of add_to_list_check: the duplicate check is left out.
add_to_list_check_no_duplicate_check(current_user, manga_id, list_id) ==
  LET custom_list == owned_list(list_id, current_user)
  IN IF current_user = None THEN RedirectResponse("/auth/login", 0)
     ELSE IF custom_list = NoList THEN HTTPException(404, "List not found")
     ELSE IF manga_id \notin manga THEN HTTPException(404, "Manga not found")
     ELSE NoResponse

\* The reads of add_to_list up to the duplicate check: the response that ends
\* the request there, or NoResponse when it goes on to insert.
add_to_list_check(current_user, manga_id, list_id) ==
  LET custom_list == owned_list(list_id, current_user)
      existing == existing_items(custom_list.id, manga_id)
  IN IF current_user = None THEN RedirectResponse("/auth/login", 0)
     ELSE IF custom_list = NoList THEN HTTPException(404, "List not found")
     ELSE IF manga_id \notin manga THEN HTTPException(404, "Manga not found")
     ELSE IF existing # {} THEN RedirectResponse("/manga/{manga_id}", manga_id)
     ELSE NoResponse

\* Faulty variant of insert_item: the table rejects a second row for a pair.
insert_item_unique(list_id, manga_id) ==
  IF existing_items(list_id, manga_id) # {}
    THEN items
    ELSE items \cup {[id |-> NextId(items), list_id |-> list_id,
                      manga_id |-> manga_id]}

\* db.add(item); db.commit(): the table has no unique constraint on
\* (list_id, manga_id) and SQLite does not enforce the foreign keys.
insert_item(list_id, manga_id) ==
  items \cup {[id |-> NextId(items), list_id |-> list_id, manga_id |-> manga_id]}

add_to_list(s, manga_id, list_id) ==
  LET current_user == get_current_user(s)
      checked == add_to_list_check(current_user, manga_id, list_id)
  IN /\ req' = [op |-> "add_to_list", sid |-> s, manga_id |-> manga_id,
                list_id |-> list_id,
                existing |-> (checked = RedirectResponse("/manga/{manga_id}", manga_id))]
     /\ IF checked # NoResponse
          THEN /\ resp' = checked
               /\ UNCHANGED items
          ELSE /\ NextId(items) <= MaxItems
               /\ items' = insert_item(list_id, manga_id)
               /\ resp' = RedirectResponse("/manga/{manga_id}", manga_id)
     /\ UNCHANGED <<users, lists, manga, chapters, session, inflight>>

\* CustomListItem joined with CustomList, filtered by item id and list owner.
owned_item(item_id, current_user) ==
  First({i \in items : /\ i.id = item_id
                        /\ \E l \in lists : /\ l.id = i.list_id
                                            /\ l.user_id = current_user.id},
        NoItem)

remove_from_list(s, item_id) ==
  LET current_user == get_current_user(s)
      item == owned_item(item_id, current_user)
  IN /\ req' = [op |-> "remove_from_list", sid |-> s, item_id |-> item_id]
     /\ IF current_user = None
          THEN /\ resp' = RedirectResponse("/auth/login", 0)
               /\ UNCHANGED items
          ELSE IF item = NoItem
            THEN /\ resp' = HTTPException(404, "Item not found or not yours")
                 /\ UNCHANGED items
            ELSE /\ items' = items \ {item}
                 /\ resp' = RedirectResponse("/lists/{list_id}", item.list_id)
     /\ UNCHANGED <<users, lists, manga, chapters, session, inflight>>

delete_list(s, list_id) ==
  LET current_user == get_current_user(s)
      custom_list == owned_list(list_id, current_user)
  IN /\ req' = [op |-> "delete_list", sid |-> s, list_id |-> list_id]
     /\ IF current_user = None
          THEN /\ resp' = RedirectResponse("/auth/login", 0)
               /\ UNCHANGED <<lists, items>>
          ELSE IF custom_list = NoList
            THEN /\ resp' = HTTPException(404, "List not found or not yours")
                 /\ UNCHANGED <<lists, items>>
            ELSE /\ lists' = lists \ {custom_list}
                 /\ items' = {i \in items : i.list_id # custom_list.id}
                 /\ resp' = RedirectResponse("/my/lists", 0)
     /\ UNCHANGED <<users, manga, chapters, session, inflight>>

\* ------------------------------------------------------------ admin pages
\* The admin pages that only read: GET /admin, /admin/users,
\* /admin/manga/new, /admin/chapters/new.
AdminPages ==
  [admin_home |-> "admin_index.html",
   admin_users |-> "admin_users.html",
   admin_new_manga_form |-> "admin_manga_new.html",
   admin_new_chapter_form |-> "admin_chapter_new.html"]

admin_page(s, page) ==
  LET current_user == get_current_user(s)
  IN /\ req' = [op |-> page, sid |-> s]
     /\ resp' = IF require_admin_raises(current_user)
                  THEN AdminRequired
                  ELSE TemplateResponse(AdminPages[page], "")
     /\ UNCHANGED <<db, session, inflight>>

\* Faulty variant of admin_update_user_role_check: the self-demotion guard is left out.
admin_update_user_role_check_no_self_guard(current_user, user_id, role) ==
  LET target == UserById(user_id)
  IN IF require_admin_raises(current_user) THEN AdminRequired
     ELSE IF role \notin {"user", "admin"} THEN HTTPException(400, "Invalid role")
     ELSE IF target = None THEN HTTPException(404, "User not found")
     ELSE NoResponse

\* Faulty variant of admin_update_user_role_check: the role value is not
\* validated.
admin_update_user_role_check_no_role_validation(current_user, user_id, role) ==
  LET target == UserById(user_id)
  IN IF require_admin_raises(current_user) THEN AdminRequired
     ELSE IF target = None THEN HTTPException(404, "User not found")
     ELSE IF target.id = current_user.id /\ role # "admin"
       THEN HTTPException(400, "You cannot demote yourself")
     ELSE NoResponse

\* The checks of admin_update_user_role before `target.role = role`: the
\* exception that ends the request, or NoResponse when it goes on to commit.
admin_update_user_role_check(current_user, user_id, role) ==
  LET target == UserById(user_id)
  IN IF require_admin_raises(current_user) THEN AdminRequired
     ELSE IF role \notin {"user", "admin"} THEN HTTPException(400, "Invalid role")
     ELSE IF target = None THEN HTTPException(404, "User not found")
     ELSE IF target.id = current_user.id /\ role # "admin"
       THEN HTTPException(400, "You cannot demote yourself")
     ELSE NoResponse

\* target.role = role; db.commit(): UPDATE user SET role = ? WHERE id = ?
update_role(user_id, role) ==
  {IF u.id = user_id THEN [u EXCEPT !.role = role] ELSE u : u \in users}

admin_update_user_role(s, user_id, role) ==
  LET current_user == get_current_user(s)
      checked == admin_update_user_role_check(current_user, user_id, role)
  IN /\ req' = [op |-> "admin_update_user_role", sid |-> s, user_id |-> user_id,
                role |-> role]
     /\ IF checked # NoResponse
          THEN /\ resp' = checked
               /\ UNCHANGED users
          ELSE /\ users' = update_role(user_id, role)
               /\ resp' = RedirectResponse("/admin/users", 0)
     /\ UNCHANGED <<lists, items, manga, chapters, session, inflight>>

admin_create_manga(s) ==
  LET current_user == get_current_user(s)
      manga_id == NextId({[id |-> m] : m \in manga})
  IN /\ req' = [op |-> "admin_create_manga", sid |-> s]
     /\ IF require_admin_raises(current_user)
          THEN /\ resp' = AdminRequired
               /\ UNCHANGED manga
          ELSE /\ manga_id <= MaxManga
               /\ manga' = manga \cup {manga_id}
               /\ resp' = RedirectResponse("/manga/{manga.id}", manga_id)
     /\ UNCHANGED <<users, lists, items, chapters, session, inflight>>

admin_create_chapter(s, manga_id) ==
  LET current_user == get_current_user(s)
      chapter == [id |-> NextId(chapters), manga_id |-> manga_id]
  IN /\ req' = [op |-> "admin_create_chapter", sid |-> s, manga_id |-> manga_id]
     /\ IF require_admin_raises(current_user)
          THEN /\ resp' = AdminRequired
               /\ UNCHANGED chapters
          ELSE IF manga_id \notin manga
            THEN /\ resp' = HTTPException(404, "Manga not found for chapter")
                 /\ UNCHANGED chapters
            ELSE /\ chapter.id <= MaxChapters
                 /\ chapters' = chapters \cup {chapter}
                 /\ resp' = RedirectResponse("/manga/{manga_id}", manga_id)
     /\ UNCHANGED <<users, lists, items, manga, session, inflight>>

\* promote_admin.py, run by the operator outside the web application.
make_admin(username) ==
  LET user == First({u \in users : u.username = username}, None)
  IN /\ req' = [op |-> "make_admin", sid |-> "none", username |-> username]
     /\ IF user = None
          THEN UNCHANGED users
          ELSE users' = update_role(user.id, "admin")
     /\ resp' = NoResponse
     /\ UNCHANGED <<lists, items, manga, chapters, session, inflight>>

\* The response goes out to the client and the next request can be taken.
ResponseSent ==
  /\ req # NoRequest
  /\ req' = NoRequest
  /\ resp' = NoResponse
  /\ UNCHANGED <<db, session, inflight>>

\* ---------------------------------------------------------- specification
\* Accounts and the admin console, every request handled to completion before
\* the next is taken.  The list tables stay empty.
Next ==
  \/ \E s \in Sessions, un \in Strings, em \in Strings, pw \in Passwords,
        r \in RoleForms :
       req = NoRequest /\ register_submit(s, un, em, pw, r)
  \/ \E s \in Sessions, ident \in Strings, pw \in Passwords :
       req = NoRequest /\ login_submit(s, ident, pw)
  \/ \E s \in Sessions : req = NoRequest /\ logout(s)
  \/ \E s \in Sessions : req = NoRequest /\ my_lists(s)
  \/ \E s \in Sessions, p \in DOMAIN AdminPages :
       req = NoRequest /\ admin_page(s, p)
  \/ \E s \in Sessions, u \in UserIds, r \in RoleForms :
       req = NoRequest /\ admin_update_user_role(s, u, r)
  \/ \E s \in Sessions : req = NoRequest /\ admin_create_manga(s)
  \/ \E s \in Sessions, m \in MangaIds :
       req = NoRequest /\ admin_create_chapter(s, m)
  \/ \E un \in Strings : req = NoRequest /\ make_admin(un)
  \/ ResponseSent

Spec == Init /\ [][Next]_vars

\* The custom lists, every request handled to completion before the next is
\* taken.  The store holds what seed.py inserts and two registered accounts;
\* the list handlers read nothing of a user but the id.
SeededManga == {1}
SeededChapters == {[id |-> 1, manga_id |-> 1], [id |-> 2, manga_id |-> 1]}

Account(n, name, password) ==
  [id |-> n, username |-> name, email |-> name,
   password_hash |-> get_password_hash(password), role |-> "user"]

ListInit ==
  /\ users = {Account(1, "kei", "pw1"), Account(2, "rin", "pw2")}
  /\ lists = {}
  /\ items = {}
  /\ manga = SeededManga
  /\ chapters = SeededChapters
  /\ session = [s \in Sessions |-> 0]
  /\ inflight = [s \in Sessions |-> Idle]
  /\ req = NoRequest
  /\ resp = NoResponse

ListNext ==
  \/ \E s \in Sessions, ident \in Strings, pw \in Passwords :
       req = NoRequest /\ login_submit(s, ident, pw)
  \/ \E s \in Sessions : req = NoRequest /\ logout(s)
  \/ \E s \in Sessions : req = NoRequest /\ my_lists(s)
  \/ \E s \in Sessions, p \in PublicForms :
       req = NoRequest /\ new_list_submit(s, p)
  \/ \E s \in Sessions, l \in ListIds : req = NoRequest /\ list_detail(s, l)
  \/ \E s \in Sessions, m \in MangaIds, l \in ListIds :
       req = NoRequest /\ add_to_list(s, m, l)
  \/ \E s \in Sessions, i \in ItemIds : req = NoRequest /\ remove_from_list(s, i)
  \/ \E s \in Sessions, l \in ListIds : req = NoRequest /\ delete_list(s, l)
  \/ ResponseSent

ListSpec == ListInit /\ [][ListNext]_vars
\* ------------------------------------------------- interleaved handlers
\* The handlers are plain `def`s, so the server runs each request on a
\* threadpool worker with a database session of its own.  The two handlers
\* below are split where other requests can run between their last read and
\* db.commit(); inflight[s] keeps what the handler read.

\* Inserts that are checked and not yet committed.
PendingAdds == Cardinality({s \in Sessions : inflight[s].op = "add_to_list"})

add_to_list_begin(s, manga_id, list_id) ==
  LET current_user == get_current_user(s)
      checked == add_to_list_check(current_user, manga_id, list_id)
  IN /\ inflight[s] = Idle
     /\ IF checked # NoResponse
          THEN /\ req' = [op |-> "add_to_list", sid |-> s, manga_id |-> manga_id,
                          list_id |-> list_id,
                          existing |->
                            (checked = RedirectResponse("/manga/{manga_id}", manga_id))]
               /\ resp' = checked
               /\ UNCHANGED inflight
          ELSE /\ NextId(items) + PendingAdds <= MaxItems
               /\ inflight' = [inflight EXCEPT ![s] =
                    [op |-> "add_to_list", manga_id |-> manga_id,
                     list_id |-> list_id]]
               /\ UNCHANGED <<req, resp>>
     /\ UNCHANGED <<db, session>>

add_to_list_commit(s) ==
  /\ inflight[s].op = "add_to_list"
  /\ items' = insert_item(inflight[s].list_id, inflight[s].manga_id)
  /\ req' = [op |-> "add_to_list", sid |-> s, manga_id |-> inflight[s].manga_id,
             list_id |-> inflight[s].list_id, existing |-> FALSE]
  /\ resp' = RedirectResponse("/manga/{manga_id}", inflight[s].manga_id)
  /\ inflight' = [inflight EXCEPT ![s] = Idle]
  /\ UNCHANGED <<users, lists, manga, chapters, session>>

admin_update_user_role_begin(s, user_id, role) ==
  LET current_user == get_current_user(s)
      checked == admin_update_user_role_check(current_user, user_id, role)
  IN /\ inflight[s] = Idle
     /\ IF checked # NoResponse
          THEN /\ req' = [op |-> "admin_update_user_role", sid |-> s,
                          user_id |-> user_id, role |-> role]
               /\ resp' = checked
               /\ UNCHANGED inflight
          ELSE /\ inflight' = [inflight EXCEPT ![s] =
                    [op |-> "admin_update_user_role", user_id |-> user_id,
                     role |-> role]]
               /\ UNCHANGED <<req, resp>>
     /\ UNCHANGED <<db, session>>

admin_update_user_role_commit(s) ==
  /\ inflight[s].op = "admin_update_user_role"
  /\ users' = update_role(inflight[s].user_id, inflight[s].role)
  /\ req' = [op |-> "admin_update_user_role", sid |-> s,
             user_id |-> inflight[s].user_id, role |-> inflight[s].role]
  /\ resp' = RedirectResponse("/admin/users", 0)
  /\ inflight' = [inflight EXCEPT ![s] = Idle]
  /\ UNCHANGED <<lists, items, manga, chapters, session>>

\* Accounts and role changes, with concurrent role-change requests.
RoleRaceNext ==
  \/ \E s \in Sessions, un \in Strings, em \in Strings, pw \in Passwords,
        r \in RoleForms :
       req = NoRequest /\ register_submit(s, un, em, pw, r)
  \/ \E s \in Sessions, ident \in Strings, pw \in Passwords :
       req = NoRequest /\ login_submit(s, ident, pw)
  \/ \E s \in Sessions : req = NoRequest /\ logout(s)
  \/ \E s \in Sessions, u \in UserIds, r \in RoleForms :
       req = NoRequest /\ admin_update_user_role_begin(s, u, r)
  \/ \E s \in Sessions : req = NoRequest /\ admin_update_user_role_commit(s)
  \/ \E un \in Strings : req = NoRequest /\ make_admin(un)
  \/ ResponseSent

RoleRaceSpec == Init /\ [][RoleRaceNext]_vars

\* The custom lists, with concurrent add_to_list requests.
AddRaceNext ==
  \/ \E s \in Sessions, ident \in Strings, pw \in Passwords :
       req = NoRequest /\ login_submit(s, ident, pw)
  \/ \E s \in Sessions : req = NoRequest /\ logout(s)
  \/ \E s \in Sessions, p \in PublicForms :
       req = NoRequest /\ new_list_submit(s, p)
  \/ \E s \in Sessions, m \in MangaIds, l \in ListIds :
       req = NoRequest /\ add_to_list_begin(s, m, l)
  \/ \E s \in Sessions : req = NoRequest /\ add_to_list_commit(s)
  \/ \E s \in Sessions, i \in ItemIds : req = NoRequest /\ remove_from_list(s, i)
  \/ \E s \in Sessions, l \in ListIds : req = NoRequest /\ delete_list(s, l)
  \/ ResponseSent

AddRaceSpec == ListInit /\ [][AddRaceNext]_vars
\* Accounts, one request at a time, starting from an empty store and cookies
\* that may be stale: the session lives in a cookie the browser keeps, signed
\* with the fixed secret_key, so a cookie issued before the database file was
\* created anew still carries its user_id.
SessionInit ==
  /\ users = {}
  /\ lists = {}
  /\ items = {}
  /\ manga = {}
  /\ chapters = {}
  /\ session \in [Sessions -> {0} \cup UserIds]
  /\ inflight = [s \in Sessions |-> Idle]
  /\ req = NoRequest
  /\ resp = NoResponse

SessionNext ==
  \/ \E s \in Sessions, un \in Strings, em \in Strings, pw \in Passwords,
        r \in RoleForms :
       req = NoRequest /\ register_submit(s, un, em, pw, r)
  \/ \E s \in Sessions, ident \in Strings, pw \in Passwords :
       req = NoRequest /\ login_submit(s, ident, pw)
  \/ \E s \in Sessions : req = NoRequest /\ logout(s)
  \/ \E s \in Sessions : req = NoRequest /\ my_lists(s)
  \/ \E s \in Sessions, u \in UserIds, r \in RoleForms :
       req = NoRequest /\ admin_update_user_role(s, u, r)
  \/ \E un \in Strings : req = NoRequest /\ make_admin(un)
  \/ ResponseSent

SessionSpec == SessionInit /\ [][SessionNext]_vars

\* ------------------------------------------------------------ properties
\* The user a session's cookie stands for: logged in when its user_id is the
\* id of a stored row.
LoggedIn(s) == \E u \in users : u.id = session[s]

Owns(s, l) == LoggedIn(s) /\ l.user_id = session[s]

\* C1: GET /lists/{id} of an existing list succeeds exactly when the list is
\* public or the requester is its logged-in owner, is forbidden (403)
\* otherwise, and is not-found (404) for an id no list has.
C1_ListDetailAccess ==
  [][req'.op = "list_detail" =>
       LET found == {l \in lists : l.id = req'.list_id}
       IN /\ found = {} => resp'.status = 404
          /\ \A l \in found :
               /\ resp'.status \in {200, 403}
               /\ resp'.status = 200 <=> (l.is_public \/ Owns(req'.sid, l))]_vars

\* C1 witness: a logged-in user who is not the owner was refused a private list.
C1_Witness ==
  /\ req.op = "list_detail"
  /\ resp.status = 403
  /\ LoggedIn(req.sid)
  /\ \E l \in lists : l.id = req.list_id /\ ~l.is_public /\ l.user_id # session[req.sid]

ListMutations == {"add_to_list", "remove_from_list", "delete_list"}

\* The lists a list-mutating request is aimed at: the list named, or the list
\* of the item named.
Targeted(r) ==
  IF r.op = "remove_from_list"
    THEN {l \in lists : \E i \in items : i.id = r.item_id /\ i.list_id = l.id}
    ELSE {l \in lists : l.id = r.list_id}

\* C5: a list-mutating request changes list or item rows only of a list its
\* logged-in requester owns; a logged-in requester aiming at a missing list or
\* at another user's list gets 404 and an anonymous one the redirect to the
\* login page, both with the two tables unchanged.
C5_ListMutationOwnerOnly ==
  [][req'.op \in ListMutations =>
       LET s == req'.sid
           mine == {l \in Targeted(req') : Owns(s, l)}
       IN /\ ~LoggedIn(s) =>
               /\ resp' = RedirectResponse("/auth/login", 0)
               /\ UNCHANGED <<lists, items>>
          /\ (LoggedIn(s) /\ mine = {}) =>
               /\ resp'.status = 404
               /\ UNCHANGED <<lists, items>>
          /\ \A l \in (lists \ lists') \cup (lists' \ lists) : l \in mine
          /\ \A i \in (items \ items') \cup (items' \ items) :
               \E l \in mine : l.id = i.list_id]_vars

\* C5 witness: a logged-in user asked to delete another user's list and got 404.
C5_Witness ==
  /\ req.op = "delete_list"
  /\ resp.status = 404
  /\ LoggedIn(req.sid)
  /\ \E l \in lists : l.id = req.list_id /\ l.user_id # session[req.sid]

\* Rows of the item table for one (list, manga) pair.
PairRows(rows, list_id, manga_id) ==
  {i \in rows : i.list_id = list_id /\ i.manga_id = manga_id}

NoDuplicatePairs ==
  \A i, j \in items : (i.list_id = j.list_id /\ i.manga_id = j.manga_id) => i = j

\* C6: with requests handled one after another, an add by the list's owner of
\* a manga in the catalogue answers with the redirect to the manga page and
\* leaves exactly one row for the pair, the table untouched when the pair was
\* already there; no pair ever has two rows.
C6_SequentialAddIdempotent ==
  [][/\ NoDuplicatePairs'
     /\ (/\ req'.op = "add_to_list"
         /\ req'.manga_id \in manga
         /\ \E l \in lists : l.id = req'.list_id /\ Owns(req'.sid, l))
        => /\ resp' = RedirectResponse("/manga/{manga_id}", req'.manga_id)
           /\ Cardinality(PairRows(items', req'.list_id, req'.manga_id)) = 1
           /\ PairRows(items, req'.list_id, req'.manga_id) # {}
                => items' = items]_vars

\* C6 witness: an add found the pair already stored and answered with the
\* redirect, one row being there.
C6_Witness ==
  /\ req.op = "add_to_list"
  /\ req.existing
  /\ resp = RedirectResponse("/manga/{manga_id}", req.manga_id)
  /\ Cardinality(PairRows(items, req.list_id, req.manga_id)) = 1

AdminOps ==
  DOMAIN AdminPages \cup
    {"admin_update_user_role", "admin_create_manga", "admin_create_chapter"}

\* The role stored now for the user of session s is "admin".
IsAdminNow(s) == \E u \in users : u.id = session[s] /\ u.role = "admin"

\* C2: an admin-only request whose requester is anonymous, or whose stored
\* role is not "admin" when the request is handled (whatever it was when the
\* session began), is answered 403 with the Manga, Chapter and User tables
\* unchanged.
C2_AdminOnly ==
  [][(req'.op \in AdminOps /\ ~IsAdminNow(req'.sid)) =>
       /\ resp'.status = 403
       /\ UNCHANGED <<manga, chapters, users>>]_vars

\* C2 witness: POST /admin/manga/new of a logged-in user whose stored role is
\* "user" was answered 403.
C2_Witness ==
  /\ req.op = "admin_create_manga"
  /\ resp.status = 403
  /\ LoggedIn(req.sid)
  /\ ~IsAdminNow(req.sid)

\* C3: an admin's role-change request for their own account with a role other
\* than "admin" is rejected (400) and changes no stored role.
C3_NoSelfDemotion ==
  [][(/\ req'.op = "admin_update_user_role"
      /\ IsAdminNow(req'.sid)
      /\ req'.user_id = session[req'.sid]
      /\ req'.role # "admin")
     => /\ resp'.status = 400
        /\ users' = users]_vars

\* C3 witness: an admin asked for role "user" on their own account and was
\* rejected, still being admin.
C3_Witness ==
  /\ req.op = "admin_update_user_role"
  /\ req.role = "user"
  /\ req.user_id = session[req.sid]
  /\ resp.status = 400
  /\ IsAdminNow(req.sid)

HasAdmin == \E u \in users : u.role = "admin"

\* C4: once some user has role "admin", every later state has an admin, also
\* when role-change requests of different admins interleave between their
\* checks and their commits.
C4_AdminRemains == [][HasAdmin => HasAdmin']_vars

\* C7: an add_to_list request that passed its duplicate check inserts its row
\* whatever was committed in between: the commit adds one row for the pair
\* even when the pair already has one.
C7_InsertNotGuardedByStore ==
  [][\A s \in Sessions :
       (inflight[s].op = "add_to_list" /\ inflight'[s] = Idle) =>
         Cardinality(PairRows(items', inflight[s].list_id, inflight[s].manga_id))
           = Cardinality(PairRows(items, inflight[s].list_id, inflight[s].manga_id)) + 1]_vars

\* C7 witness: two concurrent adds of the owner both passed the check and both
\* committed; the pair has two rows.
C7_Witness ==
  /\ req.op = "add_to_list"
  /\ resp.status = 303
  /\ \E l \in lists :
       /\ l.id = req.list_id
       /\ \A s \in Sessions : session[s] = l.user_id
       /\ Cardinality(PairRows(items, l.id, req.manga_id)) = 2

\* C8: a registration by an anonymous requester whose username or email is
\* already stored gets the form back with the error; no row is added or
\* changed and no session is established.
C8_DuplicateRegistrationRejected ==
  [][(/\ req'.op = "register_submit"
      /\ ~LoggedIn(req'.sid)
      /\ \E u \in users : u.username = req'.username \/ u.email = req'.email)
     => /\ resp' = TemplateResponse("auth_register.html",
                                    "Username or email already in use.")
        /\ users' = users
        /\ session' = session]_vars

\* C8 witness: a registration was refused for its email alone, the username
\* being free.
C8_Witness ==
  /\ req.op = "register_submit"
  /\ resp.target = "auth_register.html"
  /\ \E u \in users : u.email = req.email
  /\ \A u \in users : u.username # req.username

\* C9: a login by an anonymous requester with a user's username or email and
\* that user's password establishes a session for that user.
C9_LoginByUsernameOrEmail ==
  [][(req'.op = "login_submit" /\ ~LoggedIn(req'.sid)) =>
       \A u \in users :
         (/\ (u.username = req'.identifier \/ u.email = req'.identifier)
          /\ u.password_hash = get_password_hash(req'.password))
         => session'[req'.sid] = u.id]_vars

LoginFailed == TemplateResponse("auth_login.html", "Invalid username/email or password.")

\* C10: every login that establishes no session, whether no user has the
\* identifier or the password check fails, gets the same form with the same
\* message, and changes neither the session nor the store.
C10_LoginFailureUniform ==
  [][(/\ req'.op = "login_submit"
      /\ ~LoggedIn(req'.sid)
      /\ session'[req'.sid] = 0)
     => /\ resp' = LoginFailed
        /\ session' = session
        /\ UNCHANGED db]_vars

\* C10 witness: a login with a stored username and a wrong password failed.
C10_Witness ==
  /\ req.op = "login_submit"
  /\ resp = LoginFailed
  /\ \E u \in users : u.username = req.identifier
  /\ \A u \in users : u.password_hash # get_password_hash(req.password)

ValidRoles == {"user", "admin"}

\* C11: an admin's role-change request with a role other than "user" or
\* "admin" is rejected (400) and no stored role changes; every stored role is
\* "user" or "admin" after every registration, role change and run of
\* promote_admin.py.
C11_RolesValid ==
  [][/\ \A u \in users' : u.role \in ValidRoles
     /\ (/\ req'.op = "admin_update_user_role"
         /\ IsAdminNow(req'.sid)
         /\ req'.role \notin ValidRoles)
        => /\ resp'.status = 400
           /\ users' = users]_vars

\* C11 witness: an admin asked for role "moderator" on another, stored user and
\* was rejected, that user's role being a valid one.
C11_Witness ==
  /\ req.op = "admin_update_user_role"
  /\ req.role = "moderator"
  /\ IsAdminNow(req.sid)
  /\ resp = HTTPException(400, "Invalid role")
  /\ \E u \in users :
       u.id = req.user_id /\ u.id # session[req.sid] /\ u.role \in ValidRoles

\* C12: a session without user_id, or with a user_id no row has, is answered
\* as anonymous, not with an error; a logged-in session stays logged in as the
\* same user through every request but its own logout; logout clears it, and
\* a cleared session becomes a user's only by its own successful login or
\* registration.
C12_SessionResolution ==
  [][/\ req'.op = "my_lists" =>
          resp' = IF LoggedIn(req'.sid)
                    THEN TemplateResponse("my_lists.html", "")
                    ELSE RedirectResponse("/auth/login", 0)
     /\ \A s \in Sessions :
          /\ (LoggedIn(s) /\ ~(req'.op = "logout" /\ req'.sid = s)) =>
               /\ session'[s] = session[s]
               /\ \E u \in users' : u.id = session'[s]
          /\ (req'.op = "logout" /\ req'.sid = s) => session'[s] = 0
          /\ (session[s] = 0 /\ session'[s] # 0) =>
               /\ req'.op \in {"login_submit", "register_submit"}
               /\ req'.sid = s
               /\ resp' = RedirectResponse("/", 0)]_vars

\* C12 witness: GET /my/lists with a cookie whose user_id no row has was sent
\* to the login page like an anonymous request.
C12_Witness ==
  /\ req.op = "my_lists"
  /\ session[req.sid] # 0
  /\ ~LoggedIn(req.sid)
  /\ users # {}
  /\ resp = RedirectResponse("/auth/login", 0)

\* C13: a registration by an anonymous requester with an unused username and
\* an unused email adds exactly one User row, with that username and email,
\* and makes it the session's user; GET /my/lists of a logged-in session shows
\* the page instead of redirecting to the login page.
C13_RegistrationLogsIn ==
  [][/\ (/\ req'.op = "register_submit"
         /\ ~LoggedIn(req'.sid)
         /\ \A u \in users : u.username # req'.username /\ u.email # req'.email)
        => /\ users \subseteq users'
           /\ Cardinality(users') = Cardinality(users) + 1
           /\ \A u \in users' \ users :
                /\ u.username = req'.username
                /\ u.email = req'.email
                /\ u.id \notin {v.id : v \in users}
                /\ session'[req'.sid] = u.id
           /\ resp' = RedirectResponse("/", 0)
     /\ (req'.op = "my_lists" /\ LoggedIn(req'.sid))
        => resp' = TemplateResponse("my_lists.html", "")]_vars

\* C13 witness: a registration was answered with the redirect and its session
\* is the newest row, which has the submitted username and email.
C13_Witness ==
  /\ req.op = "register_submit"
  /\ resp = RedirectResponse("/", 0)
  /\ \E u \in users :
       /\ u.id = session[req.sid]
       /\ u.username = req.username
       /\ u.email = req.email
       /\ \A v \in users : v.id <= u.id

\* C14: a row added by a registration has role "user" whatever the posted
\* form carries; the role of a stored user changes only in the commit of a
\* POST /admin/users/{id}/role whose requester had role "admin" when its
\* checks ran, or by promote_admin; and from a state without an admin and
\* without a role change in flight, no web request leads to a state with an
\* admin.
C14_NoPrivilegeEscalation ==
  [][/\ \A u \in users' :
          u.id \notin {v.id : v \in users}
            => /\ u.role = "user"
               /\ req'.op = "register_submit"
     /\ (\E u \in users : \E v \in users' : v.id = u.id /\ v.role # u.role)
          => \/ req'.op = "make_admin"
             \/ /\ req'.op = "admin_update_user_role"
                /\ \/ IsAdminNow(req'.sid)
                   \/ inflight[req'.sid].op = "admin_update_user_role"
     /\ \A s \in Sessions :
          (inflight[s] = Idle /\ inflight'[s] # Idle) => IsAdminNow(s)
     /\ (/\ ~HasAdmin
         /\ \A s \in Sessions : inflight[s] = Idle
         /\ req'.op # "make_admin")
          => /\ \A u \in users' : u.role # "admin"
             /\ \A s \in Sessions : inflight'[s] = Idle]_vars

\* C14 witness: with no admin stored, a registration whose form carried
\* role "admin" was accepted and the row it added has role "user".
C14_Witness ==
  /\ ~HasAdmin
  /\ req.op = "register_submit"
  /\ req.role = "admin"
  /\ resp = RedirectResponse("/", 0)
  /\ \E u \in users :
       /\ u.id = session[req.sid]
       /\ u.username = req.username
       /\ u.role = "user"
       /\ \A v \in users : v.id <= u.id
====
